---- MODULE Spec2Model ----
(***************************************************************************)
(* Model of dutch.py: a command-line client that opens one websocket to a  *)
(* Dutch & Dutch master speaker, reads the room target and runs one        *)
(* command as a sequence of blocking send / recv round trips.              *)
(*                                                                         *)
(* The program is single threaded.  Every blocking transport operation     *)
(* (connect, send, recv, close) is one step; the transport is the          *)
(* environment and may fail any operation or answer with any response of   *)
(* the bounded response sets below.                                        *)
(***************************************************************************)
EXTENDS Integers, Sequences, FiniteSets, TLC

(***************************************************************************)
(* Bounds of the model (not program constants).                            *)
(***************************************************************************)
\* longest list of target descriptors in a targets response
MaxTargets == 3

(***************************************************************************)
(* Python values that are serialised by json.dumps.                        *)
(***************************************************************************)
PyStr(s) == [t |-> "str", v |-> s]
PyBool(b) == [t |-> "bool", v |-> b]
\* a float with integral part i and one fractional digit f, e.g. -30.0
PyFloat(i, f) == [t |-> "float", i |-> i, f |-> f]
PyList(items) == [t |-> "list", items |-> items]
\* a dict in insertion order: a sequence of <<key, value>> pairs
PyDict(pairs) == [t |-> "dict", pairs |-> pairs]
PyNone == [t |-> "NoneType"]

RECURSIVE json_dumps(_), dumps_items(_), dumps_pairs(_)
\* json.dumps with the default separators ", " and ": "
json_dumps(x) ==
    CASE x.t = "str" -> "\"" \o x.v \o "\""
      [] x.t = "bool" -> (IF x.v THEN "true" ELSE "false")
      [] x.t = "float" -> ToString(x.i) \o "." \o ToString(x.f)
      [] x.t = "NoneType" -> "null"
      [] x.t = "list" -> "[" \o dumps_items(x.items) \o "]"
      [] x.t = "dict" -> "{" \o dumps_pairs(x.pairs) \o "}"
dumps_items(s) ==
    IF s = <<>> THEN ""
    ELSE IF Len(s) = 1 THEN json_dumps(s[1])
    ELSE json_dumps(s[1]) \o ", " \o dumps_items(Tail(s))
dumps_pairs(s) ==
    IF s = <<>> THEN ""
    ELSE IF Len(s) = 1 THEN "\"" \o s[1][1] \o "\": " \o json_dumps(s[1][2])
    ELSE "\"" \o s[1][1] \o "\": " \o json_dumps(s[1][2]) \o ", " \o dumps_pairs(Tail(s))

(***************************************************************************)
(* Command-line arguments.  A target is a sequence of characters so that   *)
(* the address regex of main can be evaluated on it.                       *)
(***************************************************************************)
RECURSIVE Join(_)
\* the string made of the characters cs
Join(cs) == IF cs = <<>> THEN "" ELSE Head(cs) \o Join(Tail(cs))

Digits == {"0", "1", "2", "3", "4", "5", "6", "7", "8", "9"}

\* one alternative group (25[0-5]|2[0-4][0-9]|[01]?[0-9][0-9]?) of ipRegex
Octet(w) ==
    \/ /\ Len(w) = 3 /\ w[1] = "2" /\ w[2] = "5"
       /\ w[3] \in {"0", "1", "2", "3", "4", "5"}
    \/ /\ Len(w) = 3 /\ w[1] = "2"
       /\ w[2] \in {"0", "1", "2", "3", "4"} /\ w[3] \in Digits
    \/ /\ Len(w) = 3 /\ w[1] \in {"0", "1"} /\ w[2] \in Digits /\ w[3] \in Digits
    \/ /\ Len(w) = 2 /\ w[1] \in Digits /\ w[2] \in Digits
    \/ /\ Len(w) = 1 /\ w[1] \in Digits

RECURSIVE SplitDots(_, _)
\* the segments of cs between "." characters; cur is the segment being read
SplitDots(cs, cur) ==
    IF cs = <<>> THEN <<cur>>
    ELSE IF Head(cs) = "." THEN <<cur>> \o SplitDots(Tail(cs), <<>>)
    ELSE SplitDots(Tail(cs), Append(cur, Head(cs)))

\* ^(octet\.){3}octet$ on exactly the characters cs
FourOctets(cs) ==
    LET segs == SplitDots(cs, <<>>)
    IN  /\ Len(segs) = 4
        /\ \A i \in 1..4 : Octet(segs[i])

\* re.match(ipRegex, s): "$" also matches just before a final newline
ipRegex_match(cs) ==
    \/ FourOctets(cs)
    \/ /\ Len(cs) > 0
       /\ cs[Len(cs)] = "\n"
       /\ FourOctets(SubSeq(cs, 1, Len(cs) - 1))

valid_args ==
    {"wake", "sleep", "dump", "inputAes", "inputRoon", "inputSpotify",
     "play", "pause", "next", "previous", "toggleplay", "presetHarman",
     "presetBass", "presetLoud1", "presetLoud3", "bacchOn", "bacchOff"}

\* the targets tried: two addresses the regex accepts, one it rejects, a
\* hostname, and an address followed by a newline
TargetArgs ==
    {<<"1", "9", "2", ".", "1", "6", "8", ".", "1", ".", "5", "0">>,
     <<"1", "0", ".", "0", ".", "0", ".", "7">>,
     <<"2", "5", "6", ".", "1", ".", "1", ".", "1">>,
     <<"s", "p", "e", "a", "k", "e", "r", ".", "l", "o", "c", "a", "l">>,
     <<"1", "0", ".", "0", ".", "0", ".", "7", "\n">>}

\* the command words tried: the catalogue and one word outside it
CommandArgs == valid_args \cup {"bogus"}

\* sys.argv[1:] of the invocations tried
ArgLists ==
    {<<>>} \cup {<<t>> : t \in TargetArgs}
           \cup {<<t, c>> : t \in TargetArgs, c \in CommandArgs}

(***************************************************************************)
(* Responses of the transport.  A response is a text; json.loads either    *)
(* rejects it or yields the value it denotes.  A parsed JSON object is a   *)
(* function from its keys, so a missing key is a key outside DOMAIN.       *)
(***************************************************************************)
\* a text that json.loads rejects
Malformed == [wellformed |-> FALSE]
\* the text that denotes the value v
TextOf(v) == [wellformed |-> TRUE, value |-> v]

\* the target identifiers the device may report
RoomIds == {"r1", "r2"}

\* target descriptors: rooms, a speaker, a descriptor without targetType
\* and a room descriptor without target
Descriptors ==
    {[targetType |-> "room", target |-> r] : r \in RoomIds}
    \cup {[targetType |-> "speaker", target |-> "s1"],
          [target |-> "s1"],
          [targetType |-> "room"]}

\* sequences of descriptors of length at most n
DescriptorLists(n) == UNION {[1..k -> Descriptors] : k \in 0..n}

\* a decodable response without a data field
NoData == TextOf([meta |-> "response"])

\* the answers to the targets read
TargetsResponses ==
    {Malformed, NoData}
    \cup {TextOf([data |-> d]) : d \in DescriptorLists(MaxTargets)}

\* the state entry of one room in a network dump
RoomState(b) == [data |-> [streamingInfo |-> [is_playing |-> b]]]

\* the answers to the network read: state entries for any set of rooms
NetworkResponses ==
    {Malformed, NoData, TextOf([data |-> [other |-> "x"]])}
    \cup UNION {{TextOf([data |-> [state |-> [r \in S |-> RoomState(f[r])]]]) :
                    f \in [S -> BOOLEAN]} : S \in SUBSET RoomIds}

\* the answers to a request whose response the client does not decode
AckResponses == {Malformed, TextOf([meta |-> "ack"])}

(***************************************************************************)
(* State.                                                                  *)
(***************************************************************************)
VARIABLES
    args,        \* sys.argv[1:]
    pc,          \* the statement the program is at
    stack,       \* return labels of the method calls in progress
    ws,          \* self.ws: "absent", "created", "connected" or "closed"
    masterurl,   \* self.masterurl, NoAttr before __init__
    roomtarget,  \* self.roomtarget, NoAttr before it is assigned
    dump,        \* self.dump
    inputMode,   \* argument of setInput
    gain,        \* argument of setVolume
    presetId,    \* argument of doPreset
    onOff,       \* argument of doBacch
    exc,         \* the uncaught exception, if any
    retval,      \* return value of main
    status,      \* exit status of the process
    stdout,      \* what was printed
    events       \* transport operations performed, in order

vars == <<args, pc, stack, ws, masterurl, roomtarget, dump, inputMode, gain,
          presetId, onOff, exc, retval, status, stdout, events>>

\* an attribute that has not been assigned
NoAttr == "<no attribute>"
NoStatus == -1
NoException == [type |-> "none", at |-> "none"]

\* the part of the state a transport step of a command leaves alone
objvars == <<args, masterurl, roomtarget, inputMode, gain, presetId, onOff,
             retval, status>>

Init ==
    /\ args \in ArgLists
    /\ pc = "main"
    /\ stack = <<>>
    /\ ws = "absent"
    /\ masterurl = NoAttr
    /\ roomtarget = NoAttr
    /\ dump = [set |-> FALSE]
    /\ inputMode = PyNone
    /\ gain = PyNone
    /\ presetId = PyNone
    /\ onOff = PyNone
    /\ exc = NoException
    /\ retval = NoStatus
    /\ status = NoStatus
    /\ stdout = <<>>
    /\ events = <<>>

(***************************************************************************)
(* Control flow helpers.                                                   *)
(***************************************************************************)
\* an unwinding that ends the process without finalising the room object
Raise_noFinalise(type, at) ==
    /\ exc' = [type |-> type, at |-> at]
    /\ pc' = "sys.exit"
    /\ stack' = <<>>

\* an exception of the given type leaves the statement at; nothing catches
\* it, so the interpreter unwinds and finalises the room object
Raise(type, at) ==
    /\ exc' = [type |-> type, at |-> at]
    /\ pc' = "__del__"
    /\ stack' = <<>>

\* a method returns to its caller, main when no call is in progress
Return ==
    /\ pc' = (IF stack = <<>> THEN "main.return" ELSE Head(stack))
    /\ stack' = (IF stack = <<>> THEN <<>> ELSE Tail(stack))
    /\ exc' = exc

\* call method callee and continue at ret when it returns
Call(callee, ret) ==
    /\ pc' = callee
    /\ stack' = <<ret>> \o stack
    /\ exc' = exc

\* a send whose failure is swallowed: the method carries on
ws_send_ignoreFailure(text, at, next) ==
    /\ \E ok \in BOOLEAN :
         events' = Append(events, [op |-> "send", ok |-> ok, text |-> text])
    /\ pc' = next
    /\ UNCHANGED <<stack, exc>>

\* self.ws.send(text) at statement at, continuing at next
ws_send(text, at, next) ==
    \/ /\ events' = Append(events, [op |-> "send", ok |-> TRUE, text |-> text])
       /\ pc' = next
       /\ UNCHANGED <<stack, exc>>
    \/ /\ events' = Append(events, [op |-> "send", ok |-> FALSE, text |-> text])
       /\ Raise("TransportError", at)

\* a recv whose failure is swallowed: the method returns as if answered
ws_recv_ignored_swallow(at) ==
    /\ \/ \E r \in AckResponses :
            events' = Append(events, [op |-> "recv", ok |-> TRUE, resp |-> r])
       \/ events' = Append(events, [op |-> "recv", ok |-> FALSE])
    /\ Return

\* self.ws.recv() at statement at, whose result is ignored
ws_recv_ignored(at) ==
    \/ /\ \E r \in AckResponses :
            events' = Append(events, [op |-> "recv", ok |-> TRUE, resp |-> r])
       /\ Return
    \/ /\ events' = Append(events, [op |-> "recv", ok |-> FALSE])
       /\ Raise("TransportError", at)

(***************************************************************************)
(* getCommand                                                              *)
(***************************************************************************)
\* a getCommand that leaves the data field out when the dict is empty
getCommandTo_noEmptyData(endpointVal, dataDict, methodVal, targetVal) ==
    LET meta == <<"meta", PyDict(<<
                    <<"id", PyStr("999912345678")>>,
                    <<"method", PyStr(methodVal)>>,
                    <<"endpoint", PyStr(endpointVal)>>,
                    <<"targetType", PyStr("room")>>,
                    <<"target", PyStr(targetVal)>> >>)>>
    IN  json_dumps(PyDict(IF dataDict.pairs = <<>>
                          THEN <<meta>>
                          ELSE <<meta, <<"data", dataDict>> >>))

\* getCommand(endpointVal, dataDict, methodVal, targetVal) with an explicit
\* target
getCommandTo(endpointVal, dataDict, methodVal, targetVal) ==
    json_dumps(PyDict(<<
        <<"meta", PyDict(<<
            <<"id", PyStr("999912345678")>>,
            <<"method", PyStr(methodVal)>>,
            <<"endpoint", PyStr(endpointVal)>>,
            <<"targetType", PyStr("room")>>,
            <<"target", PyStr(targetVal)>> >>)>>,
        <<"data", dataDict>> >>))

\* a getCommand whose default target is the wildcard
getCommand_wildcard(endpointVal, dataDict, methodVal) ==
    getCommandTo(endpointVal, dataDict, methodVal, "*")

\* getCommand with targetVal = None: the target is self.roomtarget
getCommand(endpointVal, dataDict, methodVal) ==
    getCommandTo(endpointVal, dataDict, methodVal, roomtarget)

(***************************************************************************)
(* main: argument check and construction of the room object                *)
(***************************************************************************)
\* the usage condition without the check of the command word
args_rejected_noCommandCheck(a) ==
    \/ Len(a) < 2
    \/ ~ipRegex_match(a[1])

\* the condition of the usage branch of main
args_rejected(a) ==
    \/ Len(a) < 2
    \/ ~ipRegex_match(a[1])
    \/ a[2] \notin valid_args

\* main up to the construction of the room object
main ==
    /\ pc = "main"
    /\ IF args_rejected(args)
       THEN /\ stdout' = Append(stdout, [kind |-> "usage"])
            /\ retval' = 1
            /\ pc' = "sys.exit"
       ELSE /\ pc' = "DutchRoom.__init__"
            /\ UNCHANGED <<stdout, retval>>
    /\ UNCHANGED <<args, stack, ws, masterurl, roomtarget, dump, inputMode,
                   gain, presetId, onOff, exc, status, events>>

\* the port of the master url
ControlPort == 8768

\* DutchRoom.__init__: build the url, then getRoomId, then back in main
DutchRoom_init ==
    /\ pc = "DutchRoom.__init__"
    /\ masterurl' = "ws://" \o Join(args[1]) \o ":" \o ToString(ControlPort)
    /\ Call("getRoomId", "main.match")
    /\ UNCHANGED <<args, ws, roomtarget, dump, inputMode, gain, presetId,
                   onOff, retval, status, stdout, events>>

(***************************************************************************)
(* getRoomId                                                               *)
(***************************************************************************)
RECURSIVE scanTargets_lenient(_, _, _)
\* a loop that takes a descriptor without targetType for a non-room
scanTargets_lenient(d, i, rt) ==
    IF i > Len(d) THEN [roomtarget |-> rt, raised |-> FALSE]
    ELSE IF "targetType" \in DOMAIN d[i] /\ d[i].targetType = "room"
         THEN IF "target" \notin DOMAIN d[i]
              THEN [roomtarget |-> rt, raised |-> TRUE]
              ELSE scanTargets_lenient(d, i + 1, d[i].target)
    ELSE scanTargets_lenient(d, i + 1, rt)

RECURSIVE scanTargets(_, _, _)
\* the loop over the descriptors from index i on, with self.roomtarget = rt:
\* the value of self.roomtarget when the loop ends, and whether it ended
\* with a KeyError
scanTargets(d, i, rt) ==
    IF i > Len(d) THEN [roomtarget |-> rt, raised |-> FALSE]
    ELSE IF "targetType" \notin DOMAIN d[i]
         THEN [roomtarget |-> rt, raised |-> TRUE]
    ELSE IF d[i].targetType = "room"
         THEN IF "target" \notin DOMAIN d[i]
              THEN [roomtarget |-> rt, raised |-> TRUE]
              ELSE scanTargets(d, i + 1, d[i].target)
    ELSE scanTargets(d, i + 1, rt)

\* a resolution that looks at the first descriptor only
resolveRoom_firstOnly(d) ==
    scanTargets(IF d = <<>> THEN d ELSE <<d[1]>>, 1, "")

\* a resolution that does not reset self.roomtarget before the loop
resolveRoom_noDefault(d) == scanTargets(d, 1, roomtarget)

\* self.roomtarget = '' followed by the loop
resolveRoom(d) == scanTargets(d, 1, "")

\* websocket.WebSocket() and connect
getRoomId_connect ==
    /\ pc = "getRoomId"
    /\ \/ /\ ws' = "connected"
          /\ events' = Append(events, [op |-> "connect", ok |-> TRUE,
                                       url |-> masterurl])
          /\ pc' = "getRoomId.send"
          /\ UNCHANGED <<stack, exc>>
       \/ /\ ws' = "created"
          /\ events' = Append(events, [op |-> "connect", ok |-> FALSE,
                                       url |-> masterurl])
          /\ Raise("TransportError", "getRoomId")
    /\ UNCHANGED <<objvars, dump, stdout>>

\* the targets read
getRoomId_send ==
    /\ pc = "getRoomId.send"
    /\ ws_send(getCommandTo("targets", PyDict(<<>>), "read", "*"),
               "getRoomId", "getRoomId.recv")
    /\ UNCHANGED <<objvars, ws, dump, stdout>>

\* recv, json.loads and the scan of the descriptors
getRoomId_recv ==
    /\ pc = "getRoomId.recv"
    /\ \/ /\ events' = Append(events, [op |-> "recv", ok |-> FALSE])
          /\ Raise("TransportError", "getRoomId")
          /\ UNCHANGED roomtarget
       \/ \E r \in TargetsResponses :
            /\ events' = Append(events, [op |-> "recv", ok |-> TRUE, resp |-> r])
            /\ IF ~r.wellformed
               THEN /\ Raise("JSONDecodeError", "getRoomId")
                    /\ UNCHANGED roomtarget
               ELSE IF "data" \notin DOMAIN r.value
               THEN /\ Raise("KeyError", "getRoomId")
                    /\ UNCHANGED roomtarget
               ELSE LET res == resolveRoom(r.value.data)
                    IN  /\ roomtarget' = res.roomtarget
                        /\ IF res.raised
                           THEN Raise("KeyError", "getRoomId")
                           ELSE Return
    /\ UNCHANGED <<args, masterurl, inputMode, gain, presetId, onOff, retval,
                   status, ws, dump, stdout>>

(***************************************************************************)
(* main: the match statement                                               *)
(***************************************************************************)
\* the method each command word runs; a word no case matches runs none
MethodOf(cmd) ==
    CASE cmd = "dump" -> "doDump"
      [] cmd = "wake" -> "doWake"
      [] cmd = "sleep" -> "doSleep"
      [] cmd = "play" -> "doPlay"
      [] cmd = "pause" -> "doPause"
      [] cmd = "toggleplay" -> "doTogglePlay"
      [] cmd = "next" -> "doNext"
      [] cmd = "previous" -> "doPrevious"
      [] cmd \in {"inputAes", "inputRoon", "inputSpotify"} -> "setInput"
      [] cmd \in {"presetHarman", "presetBass", "presetLoud1", "presetLoud3"}
            -> "doPreset"
      [] cmd \in {"bacchOn", "bacchOff"} -> "doBacch"
      [] OTHER -> "main.return"

\* the argument of setInput
InputModeOf(cmd) ==
    CASE cmd = "inputAes" -> PyStr("aes")
      [] cmd = "inputRoon" -> PyStr("Roon Ready")
      [] cmd = "inputSpotify" -> PyStr("Spotify Connect")
      [] OTHER -> PyNone

\* a preset table with the literals of Harman and Bass exchanged
PresetIdOf_swapped(cmd) ==
    CASE cmd = "presetHarman" -> PyStr("3ae3dd8f-a37c-44c0-8a5f-b84128b174af")
      [] cmd = "presetBass" -> PyStr("2d0f652b-4631-4f11-8205-85a9b223a8a9")
      [] cmd = "presetLoud1" -> PyStr("f88c9fd8-42c1-4411-8371-11daa293504f")
      [] cmd = "presetLoud3" -> PyStr("1212251f-fbe7-49e8-94e5-f21271a10dd9")
      [] OTHER -> PyNone

\* the argument of doPreset
PresetIdOf(cmd) ==
    CASE cmd = "presetHarman" -> PyStr("2d0f652b-4631-4f11-8205-85a9b223a8a9")
      [] cmd = "presetBass" -> PyStr("3ae3dd8f-a37c-44c0-8a5f-b84128b174af")
      [] cmd = "presetLoud1" -> PyStr("f88c9fd8-42c1-4411-8371-11daa293504f")
      [] cmd = "presetLoud3" -> PyStr("1212251f-fbe7-49e8-94e5-f21271a10dd9")
      [] OTHER -> PyNone

\* the argument of doBacch
OnOffOf(cmd) ==
    CASE cmd = "bacchOn" -> PyBool(TRUE)
      [] cmd = "bacchOff" -> PyBool(FALSE)
      [] OTHER -> PyNone

\* match args[1]: call the method of the command
main_match ==
    /\ pc = "main.match"
    /\ pc' = MethodOf(args[2])
    /\ inputMode' = InputModeOf(args[2])
    /\ presetId' = PresetIdOf(args[2])
    /\ onOff' = OnOffOf(args[2])
    /\ UNCHANGED <<args, stack, ws, masterurl, roomtarget, dump, gain, exc,
                   retval, status, stdout, events>>

(***************************************************************************)
(* The commands                                                            *)
(***************************************************************************)
\* a method that sends one command text and then waits for one response,
\* which it does not read
RoundTrip(name, text) ==
    \/ /\ pc = name
       /\ ws_send(text, name, name \o ".recv")
       /\ UNCHANGED <<objvars, ws, dump, stdout>>
    \/ /\ pc = name \o ".recv"
       /\ ws_recv_ignored(name)
       /\ UNCHANGED <<objvars, ws, dump, stdout>>

\* the data of a streaming-api request
StreamingData(method) ==
    PyDict(<< <<"method", PyStr(method)>>, <<"arguments", PyList(<<>>)>> >>)

\* the data {'enable': b}
EnableData(b) == PyDict(<< <<"enable", b>> >>)

doPlay ==
    RoundTrip("doPlay", getCommand("streaming-api", StreamingData("Play"), "update"))

doPause ==
    RoundTrip("doPause", getCommand("streaming-api", StreamingData("Pause"), "update"))

\* a doNext that returns before the response has been received
doNext_noRecv ==
    /\ pc = "doNext"
    /\ ws_send(getCommand("streaming-api", StreamingData("Next"), "update"),
               "doNext", "main.return")
    /\ UNCHANGED <<objvars, ws, dump, stdout>>

doNext ==
    RoundTrip("doNext", getCommand("streaming-api", StreamingData("Next"), "update"))

doPrevious ==
    RoundTrip("doPrevious",
              getCommand("streaming-api", StreamingData("Previous"), "update"))

\* a doSleep that sends the data of doWake
doSleep_asWake ==
    RoundTrip("doSleep", getCommand("sleep", EnableData(PyBool(FALSE)), "update"))

doSleep ==
    RoundTrip("doSleep", getCommand("sleep", EnableData(PyBool(TRUE)), "update"))

\* a doWake that returns without waiting for the response
doWake_noRecv ==
    /\ pc = "doWake"
    /\ events' = Append(events, [op |-> "send", ok |-> TRUE,
                 text |-> getCommand("sleep", EnableData(PyBool(FALSE)), "update")])
    /\ Return
    /\ UNCHANGED <<objvars, ws, dump, stdout>>

doWake ==
    RoundTrip("doWake", getCommand("sleep", EnableData(PyBool(FALSE)), "update"))

setVolume ==
    RoundTrip("setVolume",
              getCommand("gain2", PyDict(<< <<"gain", gain>> >>), "update"))

doBacch ==
    RoundTrip("doBacch", getCommand("bacch-enabled", EnableData(onOff), "update"))

\* the gain setInput resets the volume to
SafeGain == PyFloat(-30, 0)

\* a setInput that resets the volume before it wakes the device
setInput_swapped ==
    \/ /\ pc = "setInput"
       /\ gain' = SafeGain
       /\ Call("setVolume", "setInput.115")
       /\ UNCHANGED <<args, masterurl, roomtarget, inputMode, presetId, onOff,
                      retval, status, ws, dump, stdout, events>>
    \/ /\ pc = "setInput.115"
       /\ Call("doWake", "setInput.116")
       /\ UNCHANGED <<objvars, ws, dump, stdout, events>>
    \/ /\ pc = "setInput.116"
       /\ ws_send(getCommand("inputMode",
                             PyDict(<< <<"inputMode", inputMode>> >>), "update"),
                  "setInput", "setInput.117")
       /\ UNCHANGED <<objvars, ws, dump, stdout>>
    \/ /\ pc = "setInput.117"
       /\ ws_recv_ignored("setInput")
       /\ UNCHANGED <<objvars, ws, dump, stdout>>

\* setInput: doWake(), setVolume(-30.0), then the inputMode update
setInput ==
    \/ /\ pc = "setInput"
       /\ Call("doWake", "setInput.115")
       /\ UNCHANGED <<objvars, ws, dump, stdout, events>>
    \/ /\ pc = "setInput.115"
       /\ gain' = SafeGain
       /\ Call("setVolume", "setInput.116")
       /\ UNCHANGED <<args, masterurl, roomtarget, inputMode, presetId, onOff,
                      retval, status, ws, dump, stdout, events>>
    \/ /\ pc = "setInput.116"
       /\ ws_send(getCommand("inputMode",
                             PyDict(<< <<"inputMode", inputMode>> >>), "update"),
                  "setInput", "setInput.117")
       /\ UNCHANGED <<objvars, ws, dump, stdout>>
    \/ /\ pc = "setInput.117"
       /\ ws_recv_ignored("setInput")
       /\ UNCHANGED <<objvars, ws, dump, stdout>>

\* doPreset prints the command before it sends it
doPreset ==
    LET text == getCommand("preset2", PyDict(<< <<"presetID", presetId>> >>),
                           "select")
    IN  \/ /\ pc = "doPreset"
           /\ stdout' = Append(stdout, [kind |-> "command", text |-> text])
           /\ ws_send(text, "doPreset", "doPreset.recv")
           /\ UNCHANGED <<objvars, ws, dump>>
        \/ /\ pc = "doPreset.recv"
           /\ ws_recv_ignored("doPreset")
           /\ UNCHANGED <<objvars, ws, dump, stdout>>

\* the network read of doDump and doTogglePlay
NetworkRead == getCommandTo("network", PyDict(<<>>), "read", "*")

\* a doDump that also resets the room target when it stores the dump
doDump_overwrites ==
    \/ /\ pc = "doDump"
       /\ ws_send(NetworkRead, "doDump", "doDump.recv")
       /\ UNCHANGED <<objvars, ws, dump, stdout>>
    \/ /\ pc = "doDump.recv"
       /\ \E r \in NetworkResponses \ {Malformed} :
            /\ events' = Append(events, [op |-> "recv", ok |-> TRUE, resp |-> r])
            /\ dump' = [set |-> TRUE, value |-> r.value]
            /\ roomtarget' = ""
            /\ stdout' = Append(stdout, [kind |-> "dump", value |-> r.value])
            /\ Return
       /\ UNCHANGED <<args, masterurl, inputMode, gain, presetId, onOff,
                      retval, status, ws>>

doDump ==
    \/ /\ pc = "doDump"
       /\ ws_send(NetworkRead, "doDump", "doDump.recv")
       /\ UNCHANGED <<objvars, ws, dump, stdout>>
    \/ /\ pc = "doDump.recv"
       /\ \/ /\ events' = Append(events, [op |-> "recv", ok |-> FALSE])
             /\ Raise("TransportError", "doDump")
             /\ UNCHANGED <<dump, stdout>>
          \/ \E r \in NetworkResponses :
               /\ events' = Append(events, [op |-> "recv", ok |-> TRUE, resp |-> r])
               /\ IF ~r.wellformed
                  THEN /\ Raise("JSONDecodeError", "doDump")
                       /\ UNCHANGED <<dump, stdout>>
                  ELSE /\ dump' = [set |-> TRUE, value |-> r.value]
                       /\ stdout' = Append(stdout, [kind |-> "dump",
                                                    value |-> r.value])
                       /\ Return
       /\ UNCHANGED <<objvars, ws>>

\* a lookup that takes a missing entry for "not playing"
isPlayingOf_default(v, rt) ==
    IF /\ "data" \in DOMAIN v
       /\ "state" \in DOMAIN v.data
       /\ rt \in DOMAIN v.data.state
    THEN [raised |-> FALSE,
          value |-> v.data.state[rt].data.streamingInfo.is_playing]
    ELSE [raised |-> FALSE, value |-> FALSE]

\* self.dump['data']['state'][rt]['data']['streamingInfo']['is_playing']:
\* the value, or a KeyError when a key on the way is missing
isPlayingOf(v, rt) ==
    IF /\ "data" \in DOMAIN v
       /\ "state" \in DOMAIN v.data
       /\ rt \in DOMAIN v.data.state
       /\ "data" \in DOMAIN v.data.state[rt]
       /\ "streamingInfo" \in DOMAIN v.data.state[rt].data
       /\ "is_playing" \in DOMAIN v.data.state[rt].data.streamingInfo
    THEN [raised |-> FALSE,
          value |-> v.data.state[rt].data.streamingInfo.is_playing]
    ELSE [raised |-> TRUE]

\* a toggle with the branches exchanged
toggleBranch_swapped(isPlaying) == IF isPlaying THEN "doPlay" ELSE "doPause"

\* the method doTogglePlay calls for a value of isPlaying
toggleBranch(isPlaying) == IF isPlaying THEN "doPause" ELSE "doPlay"

doTogglePlay ==
    \/ /\ pc = "doTogglePlay"
       /\ ws_send(NetworkRead, "doTogglePlay", "doTogglePlay.recv")
       /\ UNCHANGED <<objvars, ws, dump, stdout>>
    \/ /\ pc = "doTogglePlay.recv"
       /\ \/ /\ events' = Append(events, [op |-> "recv", ok |-> FALSE])
             /\ Raise("TransportError", "doTogglePlay")
             /\ UNCHANGED dump
          \/ \E r \in NetworkResponses :
               /\ events' = Append(events, [op |-> "recv", ok |-> TRUE, resp |-> r])
               /\ IF ~r.wellformed
                  THEN /\ Raise("JSONDecodeError", "doTogglePlay")
                       /\ UNCHANGED dump
                  ELSE /\ dump' = [set |-> TRUE, value |-> r.value]
                       /\ LET p == isPlayingOf(r.value, roomtarget)
                          IN  IF p.raised
                              THEN Raise("KeyError", "doTogglePlay")
                              ELSE Call(toggleBranch(p.value), "doTogglePlay.end")
       /\ UNCHANGED <<objvars, ws, stdout>>
    \/ /\ pc = "doTogglePlay.end"
       /\ Return
       /\ UNCHANGED <<objvars, ws, dump, stdout, events>>

(***************************************************************************)
(* End of main, finalisation of the room object and exit                   *)
(***************************************************************************)
\* return 0
main_return ==
    /\ pc = "main.return"
    /\ retval' = 0
    /\ pc' = "__del__"
    /\ UNCHANGED <<args, stack, ws, masterurl, roomtarget, dump, inputMode,
                   gain, presetId, onOff, exc, status, stdout, events>>

\* DutchRoom.__del__: the interpreter finalises the room object when main
\* is left, by return or by the uncaught exception; self.ws.close()
DutchRoom_del ==
    /\ pc = "__del__"
    /\ ws # "absent"
    /\ events' = Append(events, [op |-> "close", open |-> (ws = "connected")])
    /\ ws' = "closed"
    /\ pc' = "sys.exit"
    /\ UNCHANGED <<objvars, stack, dump, exc, stdout>>

\* sys.exit(main()): status of the return value, 1 after an uncaught
\* exception
sys_exit ==
    /\ pc = "sys.exit"
    /\ status' = (IF exc = NoException THEN retval ELSE 1)
    /\ pc' = "done"
    /\ UNCHANGED <<args, stack, ws, masterurl, roomtarget, dump, inputMode,
                   gain, presetId, onOff, exc, retval, stdout, events>>

Next ==
    \/ main
    \/ DutchRoom_init
    \/ getRoomId_connect
    \/ getRoomId_send
    \/ getRoomId_recv
    \/ main_match
    \/ doPlay
    \/ doPause
    \/ doNext
    \/ doPrevious
    \/ doSleep
    \/ doWake
    \/ setInput
    \/ setVolume
    \/ doPreset
    \/ doBacch
    \/ doDump
    \/ doTogglePlay
    \/ main_return
    \/ DutchRoom_del
    \/ sys_exit

Spec == Init /\ [][Next]_vars

\* the program runs on and the transport ends every blocking call: each
\* call returns or fails
LiveSpec == Spec /\ WF_vars(Next)

(***************************************************************************)
(* Observations used by the properties                                     *)
(***************************************************************************)
\* the requests sent, in order
Sends == SelectSeq(events, LAMBDA e : e.op = "send" /\ e.ok)
SentTexts == [i \in 1..Len(Sends) |-> Sends[i].text]

\* the send and recv calls made, failed ones included, in order
IO == SelectSeq(events, LAMBDA e : e.op \in {"send", "recv"})

\* the number of events of kind op
Count(op) == Len(SelectSeq(events, LAMBDA e : e.op = op))

\* the command word of a two-argument invocation
Command == IF Len(args) >= 2 THEN args[2] ELSE "<none>"

\* the text of the envelope with the given fields and data text, written
\* out as it appears on the wire
Envelope(method, endpoint, target, dataText) ==
    "{\"meta\": {\"id\": \"999912345678\", \"method\": \"" \o method
    \o "\", \"endpoint\": \"" \o endpoint
    \o "\", \"targetType\": \"room\", \"target\": \"" \o target
    \o "\"}, \"data\": " \o dataText \o "}"

TargetsReadText == Envelope("read", "targets", "*", "{}")
NetworkReadText == Envelope("read", "network", "*", "{}")

\* s is an initial part of t
IsPrefix(s, t) == Len(s) <= Len(t) /\ SubSeq(t, 1, Len(s)) = s

\* the targets response was received and decoded and has a data field
HaveTargets ==
    /\ Len(events) >= 3
    /\ events[3].op = "recv"
    /\ events[3].ok
    /\ events[3].resp.wellformed
    /\ "data" \in DOMAIN events[3].resp.value
TargetsData == events[3].resp.value.data

\* the positions of the room descriptors in d
RoomIdx(d) ==
    {i \in 1..Len(d) : "targetType" \in DOMAIN d[i] /\ d[i].targetType = "room"}

\* every descriptor of d has its targetType and target fields
WellFormedDescs(d) ==
    \A i \in 1..Len(d) : {"targetType", "target"} \subseteq DOMAIN d[i]

\* getRoomId raised
ResolutionFailed == exc.at = "getRoomId"

(***************************************************************************)
(* C1: setInput(mode) sends exactly three requests, in this order and with *)
(* nothing in between: sleep/update/{enable:false}, gain2/update/          *)
(* {gain:-30.0}, inputMode/update/{inputMode:mode}.  At every moment the   *)
(* requests sent after the targets read are an initial part of that        *)
(* sequence, and they are the whole sequence once main has returned 0.     *)
(***************************************************************************)
ModeText(cmd) ==
    CASE cmd = "inputAes" -> "aes"
      [] cmd = "inputRoon" -> "Roon Ready"
      [] cmd = "inputSpotify" -> "Spotify Connect"

SetInputTexts(mode, target) ==
    << Envelope("update", "sleep", target, "{\"enable\": false}"),
       Envelope("update", "gain2", target, "{\"gain\": -30.0}"),
       Envelope("update", "inputMode", target,
                "{\"inputMode\": \"" \o mode \o "\"}") >>

C1_SetInputSequence ==
    (Command \in {"inputAes", "inputRoon", "inputSpotify"} /\ Len(SentTexts) >= 1)
    => /\ IsPrefix(Tail(SentTexts), SetInputTexts(ModeText(Command), roomtarget))
       /\ retval = 0
            => Tail(SentTexts) = SetInputTexts(ModeText(Command), roomtarget)

C1_Witness ==
    /\ Command = "inputRoon"
    /\ retval = 0
    /\ Len(SentTexts) = 4
    /\ roomtarget = "r1"

(***************************************************************************)
(* C2: sends and receives on the connection strictly alternate starting    *)
(* with a send: the k-th transport call is a send when k is odd and a      *)
(* receive when k is even, a failed call is the last one, a request that   *)
(* was sent is followed by its receive before the program ends, and a      *)
(* completed command has made as many receives as sends.                   *)
(***************************************************************************)
C2_Alternation ==
    /\ \A i \in 1..Len(IO) :
         /\ IO[i].op = (IF i % 2 = 1 THEN "send" ELSE "recv")
         /\ ~IO[i].ok => i = Len(IO)
    /\ (pc = "done" /\ Len(IO) % 2 = 1) => ~IO[Len(IO)].ok
    /\ retval = 0 => Len(IO) % 2 = 0

C2_Witness ==
    /\ Command = "toggleplay"
    /\ retval = 0
    /\ Len(IO) = 6

(***************************************************************************)
(* C3: when the targets response has more than one room descriptor, the    *)
(* room target resolved is the target of the first of them.                *)
(***************************************************************************)
FirstRoomTarget(d) ==
    d[CHOOSE i \in RoomIdx(d) : \A j \in RoomIdx(d) : i <= j].target

C3_FirstRoomWins ==
    (/\ HaveTargets
     /\ WellFormedDescs(TargetsData)
     /\ Cardinality(RoomIdx(TargetsData)) > 1)
    => roomtarget = FirstRoomTarget(TargetsData)

(***************************************************************************)
(* C4: when the targets response has exactly one room descriptor among     *)
(* any number of non-room descriptors, resolution does not fail and the    *)
(* room target is that descriptor's target, whatever its position.         *)
(***************************************************************************)
C4_SingleRoom ==
    (/\ HaveTargets
     /\ WellFormedDescs(TargetsData)
     /\ Cardinality(RoomIdx(TargetsData)) = 1)
    => /\ ~ResolutionFailed
       /\ \A i \in RoomIdx(TargetsData) : roomtarget = TargetsData[i].target

C4_Witness ==
    /\ HaveTargets
    /\ Len(TargetsData) = 3
    /\ WellFormedDescs(TargetsData)
    /\ RoomIdx(TargetsData) = {2}
    /\ roomtarget = "r2"
    /\ pc = "main.match"

(***************************************************************************)
(* C5: when no descriptor of the targets response is a room (all have a    *)
(* targetType, none is "room"; the empty sequence included), resolution    *)
(* raises nothing and the room target is the empty string.                 *)
(***************************************************************************)
C5_NoRoom ==
    (/\ HaveTargets
     /\ WellFormedDescs(TargetsData)
     /\ RoomIdx(TargetsData) = {})
    => /\ ~ResolutionFailed
       /\ roomtarget = ""

C5_Witness ==
    /\ HaveTargets
    /\ Len(TargetsData) = 2
    /\ WellFormedDescs(TargetsData)
    /\ RoomIdx(TargetsData) = {}
    /\ roomtarget = ""
    /\ pc = "main.match"

(***************************************************************************)
(* C6: togglePlay first sends the network read with target '*' and then    *)
(* exactly one further request, chosen by is_playing of the room target's  *)
(* state entry in the response: streaming-api Pause when it is true, Play  *)
(* when it is false; never both, and not neither when it completes.        *)
(***************************************************************************)
StreamingText(method) == "{\"method\": \"" \o method \o "\", \"arguments\": []}"

\* the decoded response to the network read of togglePlay
NetworkValue == events[5].resp.value

C6_TogglePlay ==
    Command = "toggleplay"
    => /\ Len(SentTexts) <= 3
       /\ Len(SentTexts) >= 2 => SentTexts[2] = NetworkReadText
       /\ Len(SentTexts) = 3
            => /\ roomtarget \in DOMAIN NetworkValue.data.state
               /\ SentTexts[3] =
                    Envelope("update", "streaming-api", roomtarget,
                        StreamingText(
                            IF NetworkValue.data.state[roomtarget]
                                   .data.streamingInfo.is_playing
                            THEN "Pause" ELSE "Play"))
       /\ retval = 0 => Len(SentTexts) = 3

C6_Witness ==
    /\ Command = "toggleplay"
    /\ retval = 0
    /\ Len(SentTexts) = 3
    /\ roomtarget = "r2"
    /\ NetworkValue.data.state["r2"].data.streamingInfo.is_playing
    /\ DOMAIN NetworkValue.data.state = {"r1", "r2"}
    /\ ~NetworkValue.data.state["r1"].data.streamingInfo.is_playing

(***************************************************************************)
(* C7: the connection of an invocation is closed exactly once on every     *)
(* exit path: close is never called twice, and when the process ends       *)
(* after a connect was attempted, close was called once, as the last       *)
(* transport operation, whether the command completed or connect, send,    *)
(* receive or decoding failed.                                             *)
(***************************************************************************)
C7_ClosedOnce ==
    /\ Count("connect") <= 1
    /\ Count("close") <= 1
    /\ (pc = "done" /\ Count("connect") = 1)
         => /\ Count("close") = 1
            /\ events[Len(events)].op = "close"
            /\ events[Len(events)].open = events[1].ok

C7_Witness ==
    /\ pc = "done"
    /\ exc = [type |-> "TransportError", at |-> "setVolume"]
    /\ events[1].ok
    /\ Count("close") = 1

(***************************************************************************)
(* C8: an invocation with fewer than two arguments or with a command word  *)
(* outside the catalogue prints the usage message and returns status 1,    *)
(* and never creates a connection or performs a transport operation.       *)
(***************************************************************************)
C8_UsageOnBadCommand ==
    (Len(args) < 2 \/ args[2] \notin valid_args)
    => /\ events = <<>>
       /\ ws = "absent"
       /\ pc \in {"main", "sys.exit", "done"}
       /\ pc # "main" => (stdout = <<[kind |-> "usage"]>> /\ retval = 1)
       /\ pc = "done" => status = 1

C8_Witness ==
    /\ pc = "done"
    /\ args = <<<<"1", "9", "2", ".", "1", "6", "8", ".", "1", ".", "5", "0">>,
                "bogus">>
    /\ status = 1
    /\ stdout = <<[kind |-> "usage"]>>

(***************************************************************************)
(* C9: for a literal IPv4 address A and the command sleep, against a       *)
(* transport that answers every request (the targets read with a list of   *)
(* complete descriptors), the transport operations are exactly: connect    *)
(* to A on port 8768, the targets read with target '*', its response,      *)
(* sleep/update/{enable:true} addressed to the resolved room target, its   *)
(* response, close; nothing is resolved or asked of another endpoint, and  *)
(* the exit status is 0.                                                   *)
(***************************************************************************)
\* the literal addresses among the targets tried, with their url
AddressUrl(a) ==
    CASE a = <<"1", "9", "2", ".", "1", "6", "8", ".", "1", ".", "5", "0">>
            -> "ws://192.168.1.50:8768"
      [] a = <<"1", "0", ".", "0", ".", "0", ".", "7">> -> "ws://10.0.0.7:8768"
      [] OTHER -> "<not an address>"

\* no transport operation failed and the targets read was answered with a
\* list of complete descriptors
TransportAnswers ==
    /\ \A i \in 1..Len(events) : events[i].op # "close" => events[i].ok
    /\ HaveTargets
    /\ WellFormedDescs(TargetsData)

C9_SleepEndToEnd ==
    (/\ pc = "done"
     /\ Len(args) = 2
     /\ AddressUrl(args[1]) # "<not an address>"
     /\ args[2] = "sleep"
     /\ TransportAnswers)
    => /\ status = 0
       /\ Len(events) = 6
       /\ events[1] = [op |-> "connect", ok |-> TRUE, url |-> AddressUrl(args[1])]
       /\ events[2] = [op |-> "send", ok |-> TRUE, text |-> TargetsReadText]
       /\ events[3].op = "recv"
       /\ events[4] = [op |-> "send", ok |-> TRUE,
                       text |-> Envelope("update", "sleep", roomtarget,
                                         "{\"enable\": true}")]
       /\ events[5].op = "recv"
       /\ events[6] = [op |-> "close", open |-> TRUE]

C9_Witness ==
    /\ pc = "done"
    /\ args = <<<<"1", "9", "2", ".", "1", "6", "8", ".", "1", ".", "5", "0">>,
                "sleep">>
    /\ TransportAnswers
    /\ status = 0
    /\ roomtarget = "r1"
    /\ Len(events) = 6

(***************************************************************************)
(* C10: an invocation whose target is a hostname and whose command is in   *)
(* the catalogue is not answered with the usage message and status 1; it   *)
(* opens a transport to the name on port 8768.                             *)
(***************************************************************************)
Hostname == <<"s", "p", "e", "a", "k", "e", "r", ".", "l", "o", "c", "a", "l">>

C10_HostnameAccepted ==
    (/\ pc = "done"
     /\ Len(args) = 2
     /\ args[1] = Hostname
     /\ args[2] \in valid_args)
    => /\ ~(status = 1 /\ stdout = <<[kind |-> "usage"]>>)
       /\ Count("connect") >= 1
       /\ events[1].url = "ws://speaker.local:8768"

(***************************************************************************)
(* C11: the hostname of the master is resolved with up to 5 attempts: an   *)
(* invocation with a hostname target and a catalogue command makes at      *)
(* least one and at most five resolution attempts, pauses once after each  *)
(* failed attempt that is followed by another, and opens no session        *)
(* connection when five attempts failed.                                   *)
(***************************************************************************)
\* calls of the name resolver and pauses between them, as transport events
ResolveAttempts == Count("resolve")
Pauses == Count("sleep")

C11_ResolutionRetried ==
    (/\ pc = "done"
     /\ Len(args) = 2
     /\ args[1] = Hostname
     /\ args[2] \in valid_args)
    => /\ ResolveAttempts \in 1..5
       /\ Pauses = ResolveAttempts - 1
       /\ Count("connect") = 0 => ResolveAttempts = 5

(***************************************************************************)
(* C12: every message handed to send is an envelope whose meta block has   *)
(* the five fields id (the fixed client identifier), method (read, update  *)
(* or select), endpoint, targetType = "room" and target, and whose data    *)
(* field is present, possibly as the empty map.                            *)
(***************************************************************************)
\* the send calls made, failed ones included
SendAttempts == SelectSeq(events, LAMBDA e : e.op = "send")

Methods == {"read", "update", "select"}
Endpoints ==
    {"sleep", "gain2", "inputMode", "targets", "network", "streaming-api",
     "preset2", "bacch-enabled", "master"}
\* the targets an envelope may carry: the wildcard, the empty string and
\* the identifiers of the device
EnvelopeTargets == {"*", ""} \cup RoomIds
\* the data maps of the protocol, as texts
DataTexts ==
    {"{}", "{\"enable\": true}", "{\"enable\": false}", "{\"gain\": -30.0}"}
    \cup {"{\"inputMode\": \"" \o m \o "\"}" :
            m \in {"aes", "Roon Ready", "Spotify Connect"}}
    \cup {"{\"method\": \"" \o m \o "\", \"arguments\": []}" :
            m \in {"Play", "Pause", "Next", "Previous"}}
    \cup {"{\"presetID\": \"" \o p \o "\"}" :
            p \in {"2d0f652b-4631-4f11-8205-85a9b223a8a9",
                   "3ae3dd8f-a37c-44c0-8a5f-b84128b174af",
                   "f88c9fd8-42c1-4411-8371-11daa293504f",
                   "1212251f-fbe7-49e8-94e5-f21271a10dd9"}}

\* the complete envelopes addressed to one of the targets ts
EnvelopesTo(ts) ==
    {Envelope(m, e, t, d) :
        m \in Methods, e \in Endpoints, t \in ts, d \in DataTexts}

\* the complete envelopes, by the target they are addressed to
EnvelopesByTarget == [t \in EnvelopeTargets |-> EnvelopesTo({t})]

WellFormedEnvelopes == UNION {EnvelopesByTarget[t] : t \in EnvelopeTargets}

C12_EnvelopeComplete ==
    \A i \in 1..Len(SendAttempts) : SendAttempts[i].text \in WellFormedEnvelopes

C12_Witness ==
    /\ Command = "dump"
    /\ retval = 0
    /\ Len(SentTexts) = 2
    /\ SentTexts[2] = Envelope("read", "network", "*", "{}")

(***************************************************************************)
(* C13: the wildcard target '*' is carried only by the targets read and    *)
(* by the network read of dump and of togglePlay; every other request      *)
(* carries the room target resolved when the session was opened, also      *)
(* when that is the empty string: once resolution has completed, the       *)
(* command's request is handed to send whatever the room target is.        *)
(***************************************************************************)
C13_WildcardOnlyForReads ==
    /\ \A i \in 1..Len(SendAttempts) :
         IF i = 1 THEN SendAttempts[i].text = TargetsReadText
         ELSE IF i = 2 /\ Command \in {"dump", "toggleplay"}
              THEN SendAttempts[i].text = NetworkReadText
         ELSE /\ roomtarget \in EnvelopeTargets \ {"*"}
              /\ SendAttempts[i].text \in EnvelopesByTarget[roomtarget]
    /\ (pc = "done" /\ HaveTargets /\ ~ResolutionFailed)
         => Len(SendAttempts) >= 2

C13_Witness ==
    /\ Command = "wake"
    /\ retval = 0
    /\ roomtarget = ""
    /\ Len(SentTexts) = 2
    /\ SentTexts[2] = Envelope("update", "sleep", "", "{\"enable\": false}")

(***************************************************************************)
(* C14: each single-step command sends, after the targets read, exactly    *)
(* one request, the one of the command table, and no other request.        *)
(***************************************************************************)
SingleStep ==
    valid_args \ {"toggleplay", "inputAes", "inputRoon", "inputSpotify"}

\* the request of the command table for a single-step command word
TableText(cmd, t) ==
    CASE cmd = "sleep" -> Envelope("update", "sleep", t, "{\"enable\": true}")
      [] cmd = "wake" -> Envelope("update", "sleep", t, "{\"enable\": false}")
      [] cmd = "play" -> Envelope("update", "streaming-api", t, StreamingText("Play"))
      [] cmd = "pause" -> Envelope("update", "streaming-api", t, StreamingText("Pause"))
      [] cmd = "next" -> Envelope("update", "streaming-api", t, StreamingText("Next"))
      [] cmd = "previous"
            -> Envelope("update", "streaming-api", t, StreamingText("Previous"))
      [] cmd = "presetHarman"
            -> Envelope("select", "preset2", t,
                        "{\"presetID\": \"2d0f652b-4631-4f11-8205-85a9b223a8a9\"}")
      [] cmd = "presetBass"
            -> Envelope("select", "preset2", t,
                        "{\"presetID\": \"3ae3dd8f-a37c-44c0-8a5f-b84128b174af\"}")
      [] cmd = "presetLoud1"
            -> Envelope("select", "preset2", t,
                        "{\"presetID\": \"f88c9fd8-42c1-4411-8371-11daa293504f\"}")
      [] cmd = "presetLoud3"
            -> Envelope("select", "preset2", t,
                        "{\"presetID\": \"1212251f-fbe7-49e8-94e5-f21271a10dd9\"}")
      [] cmd = "bacchOn"
            -> Envelope("update", "bacch-enabled", t, "{\"enable\": true}")
      [] cmd = "bacchOff"
            -> Envelope("update", "bacch-enabled", t, "{\"enable\": false}")
      [] cmd = "dump" -> Envelope("read", "network", "*", "{}")

C14_SingleStepTable ==
    Command \in SingleStep
    => /\ Len(SendAttempts) <= 2
       /\ Len(SendAttempts) >= 1 => SendAttempts[1].text = TargetsReadText
       /\ Len(SendAttempts) = 2
            => SendAttempts[2].text = TableText(Command, roomtarget)
       /\ retval = 0 => Len(SentTexts) = 2

C14_Witness ==
    /\ Command = "presetHarman"
    /\ retval = 0
    /\ roomtarget = "r1"
    /\ Len(SentTexts) = 2

(***************************************************************************)
(* C15: when a send or a receive fails, the invocation ends with a fatal   *)
(* error: after the failed call the only transport operation is the close  *)
(* (the request is not sent again, no later request and no compensating    *)
(* request is sent), main does not return 0 and the exit status is not 0.  *)
(***************************************************************************)
C15_FailureIsFatal ==
    \A i \in 1..Len(events) :
        (events[i].op \in {"send", "recv"} /\ ~events[i].ok)
        => /\ \A j \in (i + 1)..Len(events) : events[j].op = "close"
           /\ exc.type = "TransportError"
           /\ retval # 0
           /\ pc \in {"__del__", "sys.exit", "done"}
           /\ pc = "done" => status = 1

C15_Witness ==
    /\ pc = "done"
    /\ Command = "toggleplay"
    /\ exc = [type |-> "TransportError", at |-> "doPause"]
    /\ Len(SendAttempts) = 3
    /\ ~SendAttempts[3].ok
    /\ status = 1

(***************************************************************************)
(* C16: when the targets response has no data field, or one of its         *)
(* descriptors has no targetType field, opening the session fails with a   *)
(* fatal error and the command sends no request: the targets read stays    *)
(* the only request and the exit status is not 0.                          *)
(***************************************************************************)
\* the targets response was decoded and lacks data or a targetType
TargetsLackField ==
    /\ Len(events) >= 3
    /\ events[3].op = "recv"
    /\ events[3].ok
    /\ events[3].resp.wellformed
    /\ \/ "data" \notin DOMAIN events[3].resp.value
       \/ \E i \in 1..Len(TargetsData) : "targetType" \notin DOMAIN TargetsData[i]

C16_MissingFieldIsFatal ==
    TargetsLackField
    => /\ exc = [type |-> "KeyError", at |-> "getRoomId"]
       /\ Len(SendAttempts) = 1
       /\ retval # 0
       /\ pc \in {"__del__", "sys.exit", "done"}
       /\ pc = "done" => status = 1

C16_Witness ==
    /\ pc = "done"
    /\ TargetsLackField
    /\ "data" \in DOMAIN events[3].resp.value
    /\ TargetsData = <<[targetType |-> "room", target |-> "r1"], [target |-> "s1"]>>
    /\ roomtarget = "r1"
    /\ status = 1

(***************************************************************************)
(* C17: an invocation whose arguments main accepts (an address and a       *)
(* catalogue command), run against a transport that ends every call and    *)
(* answers every request with a response that has the fields the command   *)
(* reads, terminates with exit status 0; every invocation terminates; and  *)
(* main returns 0 only when every request, the last included, has          *)
(* received its response.                                                  *)
(***************************************************************************)
AcceptedArgs ==
    /\ Len(args) = 2
    /\ AddressUrl(args[1]) # "<not an address>"
    /\ args[2] \in valid_args

\* the decoded value v has the state entry that togglePlay reads for rt
HasPlayingEntry(v, rt) ==
    /\ "data" \in DOMAIN v
    /\ "state" \in DOMAIN v.data
    /\ rt \in DOMAIN v.data.state

\* every transport call succeeded and every response that the program
\* decodes has the fields it reads
WellAnswered ==
    /\ TransportAnswers
    /\ Command \in {"dump", "toggleplay"}
         => /\ Len(events) >= 5
            /\ events[5].resp.wellformed
            /\ Command = "toggleplay" => HasPlayingEntry(NetworkValue, roomtarget)

C17_TerminatesWithZero ==
    /\ <>(pc = "done")
    /\ []((pc = "done" /\ AcceptedArgs /\ WellAnswered) => status = 0)
    /\ [](retval = 0
            => /\ Len(IO) >= 4
               /\ Len(IO) % 2 = 0
               /\ \A i \in 1..Len(IO) : IO[i].ok)

C17_Witness ==
    /\ pc = "done"
    /\ Command = "inputSpotify"
    /\ AcceptedArgs
    /\ WellAnswered
    /\ Len(IO) = 8
    /\ status = 0

(***************************************************************************)
(* C18: in setInput the inputMode update is handed to send only after the  *)
(* responses to the wake request and to the gain2 -30.0 request have been  *)
(* received; when the wake or the gain step fails, the inputMode update    *)
(* is never sent and nothing is sent after the failure, so the requests    *)
(* already sent stay applied.                                              *)
(***************************************************************************)
InputCommands == {"inputAes", "inputRoon", "inputSpotify"}

\* the positions in IO of the send calls of the inputMode update
InputModeSends ==
    {i \in 1..Len(IO) :
        /\ IO[i].op = "send"
        /\ IO[i].text = SetInputTexts(ModeText(Command), roomtarget)[3]}

C18_InputModeLast ==
    Command \in InputCommands
    => /\ \A i \in InputModeSends :
            /\ i = 7
            /\ \A j \in 1..6 : IO[j].ok
            /\ IO[3].text = SetInputTexts(ModeText(Command), roomtarget)[1]
            /\ IO[5].text = SetInputTexts(ModeText(Command), roomtarget)[2]
       /\ exc.at \in {"doWake", "setVolume"}
            => /\ InputModeSends = {}
               /\ ~IO[Len(IO)].ok
               /\ Len(IO) <= 6

C18_Witness ==
    /\ pc = "done"
    /\ Command = "inputAes"
    /\ exc = [type |-> "TransportError", at |-> "setVolume"]
    /\ Len(SentTexts) = 3
    /\ Len(IO) = 6
    /\ InputModeSends = {}

(***************************************************************************)
(* C19: the room target is written only by the step of getRoomId that      *)
(* receives the targets response; the targets read is the first request    *)
(* and is sent once.  No command step changes the room target, the steps   *)
(* of dump and togglePlay that store the dump included.                    *)
(***************************************************************************)
C19_RoomTargetFrame ==
    /\ [][roomtarget' # roomtarget => pc = "getRoomId.recv"]_vars
    /\ [](\A i \in 1..Len(SendAttempts) :
            (SendAttempts[i].text = TargetsReadText) <=> (i = 1))

C19_Witness ==
    /\ pc = "done"
    /\ Command = "dump"
    /\ retval = 0
    /\ dump.set
    /\ roomtarget = "r2"

(***************************************************************************)
(* C20: in togglePlay, when the decoded response to the network read has   *)
(* no state entry keyed by the room target (as when the room target is     *)
(* the empty string), the command fails after the network read: neither    *)
(* Play nor Pause is handed to send and the exit status is not 0.          *)
(***************************************************************************)
\* togglePlay received and decoded a network response without an entry
\* for the room target
NoEntryForRoom ==
    /\ Command = "toggleplay"
    /\ Len(events) >= 5
    /\ events[5].op = "recv"
    /\ events[5].ok
    /\ events[5].resp.wellformed
    /\ ~HasPlayingEntry(NetworkValue, roomtarget)

C20_ToggleWithoutEntryFails ==
    NoEntryForRoom
    => /\ exc = [type |-> "KeyError", at |-> "doTogglePlay"]
       /\ Len(SendAttempts) = 2
       /\ retval # 0
       /\ pc \in {"__del__", "sys.exit", "done"}
       /\ pc = "done" => status = 1

C20_Witness ==
    /\ pc = "done"
    /\ NoEntryForRoom
    /\ roomtarget = ""
    /\ "data" \in DOMAIN NetworkValue
    /\ "state" \in DOMAIN NetworkValue.data
    /\ DOMAIN NetworkValue.data.state = {"r1", "r2"}
    /\ status = 1

====
